---- MODULE Spec2Model ----
(***************************************************************************)
(* Auto-router of openclaw: classifyByRules (auto-router-rules.ts), the    *)
(* LLM classifier, the model scorer and resolveAutoModel (auto-router.ts   *)
(* in its two variants: the rules-only one and the one with the LLM        *)
(* classifier).                                                            *)
(*                                                                         *)
(* A message is the record [body, pad]: the string body followed by pad    *)
(* filler characters (a space and then pad-1 letters "z"; pad is 0 or at   *)
(* least 2), so that the length thresholds 100, 500 and 1000 are reached   *)
(* without scanning long strings. The patterns are matched against the     *)
(* body and the first two filler characters; the rest of the filler (more  *)
(* letters "z", of which rest is the number) matches no pattern word and   *)
(* counts for the length and for the ".{20,}" tail of the second complex   *)
(* pattern.                                                                *)
(***************************************************************************)
EXTENDS Integers, Sequences, FiniteSets, TLC

Undef == "undefined"

(***************************************************************************)
(* Strings                                                                 *)
(***************************************************************************)
UpperLetters == <<"A","B","C","D","E","F","G","H","I","J","K","L","M",
                  "N","O","P","Q","R","S","T","U","V","W","X","Y","Z">>

LowerLetters == <<"a","b","c","d","e","f","g","h","i","j","k","l","m",
                  "n","o","p","q","r","s","t","u","v","w","x","y","z">>

Digits == {"0","1","2","3","4","5","6","7","8","9"}

Whitespace == {" ", "\t", "\n"}

CharAt(t, i) == IF i >= 1 /\ i <= Len(t) THEN SubSeq(t, i, i) ELSE ""

LowerOf == [c \in {UpperLetters[k] : k \in 1..26} |->
               LowerLetters[CHOOSE k \in 1..26 : UpperLetters[k] = c]]

UpperOf == [c \in {LowerLetters[k] : k \in 1..26} |->
               UpperLetters[CHOOSE k \in 1..26 : LowerLetters[k] = c]]

toLowerChar(c) == IF c \in DOMAIN LowerOf THEN LowerOf[c] ELSE c

toUpperChar(c) == IF c \in DOMAIN UpperOf THEN UpperOf[c] ELSE c

\* the characters i..j of t, each mapped to lower or to upper case
RECURSIVE MapRange(_, _, _, _)
MapRange(t, i, j, lower) ==
    IF i > j THEN ""
    ELSE IF i = j
    THEN (IF lower THEN toLowerChar(CharAt(t, i)) ELSE toUpperChar(CharAt(t, i)))
    ELSE MapRange(t, i, (i + j) \div 2, lower)
         \o MapRange(t, ((i + j) \div 2) + 1, j, lower)

toLowerCase(t) == MapRange(t, 1, Len(t), TRUE)

toUpperCase(t) == MapRange(t, 1, Len(t), FALSE)

\* t.includes(s)
includes(t, s) ==
    \E i \in 1..(Len(t) - Len(s) + 1) : SubSeq(t, i, i + Len(s) - 1) = s

RECURSIVE TrimStartIndex(_, _)
TrimStartIndex(t, i) ==
    IF i <= Len(t) /\ CharAt(t, i) \in Whitespace THEN TrimStartIndex(t, i + 1) ELSE i

RECURSIVE TrimEndIndex(_, _)
TrimEndIndex(t, j) ==
    IF j >= 1 /\ CharAt(t, j) \in Whitespace THEN TrimEndIndex(t, j - 1) ELSE j

\* String.prototype.trim
trim(t) == SubSeq(t, TrimStartIndex(t, 1), TrimEndIndex(t, Len(t)))

\* index of the first "/" of t, 0 when there is none
RECURSIVE IndexOfSlash(_, _)
IndexOfSlash(t, i) ==
    IF i > Len(t) THEN 0
    ELSE IF CharAt(t, i) = "/" THEN i ELSE IndexOfSlash(t, i + 1)

(***************************************************************************)
(* Regular expressions of the pattern banks: an expression is a record     *)
(* with its kind k; Ends(r, t, rest, i) is the set of positions at which a *)
(* match of r that starts at position i of t can end (the position after   *)
(* its last character). All the banks carry the flag i: they are matched   *)
(* against the lower-cased text.                                           *)
(***************************************************************************)
Lit(s) == [k |-> "lit", s |-> s]
Words(ws) == [k |-> "words", ws |-> ws]
Cat(rs) == [k |-> "cat", rs |-> rs]
Alt(rs) == [k |-> "alt", rs |-> rs]
Opt(r) == [k |-> "opt", r |-> r]
WordB == [k |-> "b"]
Bol == [k |-> "bol"]
Ws1 == [k |-> "ws1"]
DotStar == [k |-> "dotstar"]
DotMin(n) == [k |-> "dotmin", n |-> n]

\* \w
WordChars == DOMAIN LowerOf \cup DOMAIN UpperOf \cup Digits \cup {"_"}

IsWordChar(c) == c \in WordChars

\* the character at position i of the text t that rest letters "z" follow
CharAtRest(t, rest, i) == IF i = Len(t) + 1 /\ rest > 0 THEN "z" ELSE CharAt(t, i)

\* \b between positions i-1 and i
IsBoundary(t, rest, i) ==
    IsWordChar(CharAtRest(t, rest, i - 1)) # IsWordChar(CharAtRest(t, rest, i))

RECURSIVE WsRun(_, _)
WsRun(t, i) ==
    IF CharAt(t, i) \in Whitespace THEN {i + 1} \cup WsRun(t, i + 1) ELSE {}

RECURSIVE Ends(_, _, _, _)
RECURSIVE CatEnds(_, _, _, _, _)
CatEnds(rs, n, t, rest, starts) ==
    IF n > Len(rs) THEN starts
    ELSE CatEnds(rs, n + 1, t, rest, UNION {Ends(rs[n], t, rest, i) : i \in starts})

Ends(r, t, rest, i) ==
    CASE r.k = "lit" ->
           IF i + Len(r.s) - 1 <= Len(t) /\ SubSeq(t, i, i + Len(r.s) - 1) = r.s
           THEN {i + Len(r.s)} ELSE {}
      [] r.k = "words" ->
           {i + Len(w) : w \in {x \in r.ws :
               i + Len(x) - 1 <= Len(t) /\ SubSeq(t, i, i + Len(x) - 1) = x}}
      [] r.k = "cat" -> CatEnds(r.rs, 1, t, rest, {i})
      [] r.k = "alt" -> UNION {Ends(r.rs[n], t, rest, i) : n \in 1..Len(r.rs)}
      [] r.k = "opt" -> {i} \cup Ends(r.r, t, rest, i)
      [] r.k = "b" -> IF IsBoundary(t, rest, i) THEN {i} ELSE {}
      [] r.k = "bol" -> IF i = 1 THEN {i} ELSE {}
      [] r.k = "ws1" -> WsRun(t, i)
      [] r.k = "dotstar" -> i..(Len(t) + 1)
      [] r.k = "dotmin" ->
           \* the last element of its pattern: the body's rest and the filler
           IF (Len(t) - i + 1) + rest >= r.n THEN {Len(t) + 1} ELSE {}

\* RegExp.prototype.test, on the lower-cased text
test(r, low, rest) ==
    \E i \in 1..(Len(low) + 1) : Ends(r, low, rest, i) # {}

(***************************************************************************)
(* Keyword / pattern banks                                                 *)
(***************************************************************************)
Sep == Words({"-", " "})

OptSep == Opt(Sep)

SIMPLE_PATTERNS == <<
    Cat(<<Bol, Words({"hi", "hello", "hey", "thanks", "thank you", "ok", "okay",
                      "yes", "no", "sure", "bye", "good morning", "good night",
                      "gm", "gn"}), WordB>>),
    Cat(<<Bol, Lit("what"), Words({"'s", " is"}), Lit(" "), Opt(Lit("the ")),
          Words({"time", "date", "day", "weather"}), WordB>>),
    Cat(<<WordB, Lit("what"), Ws1, Words({"time", "day", "date"}), Ws1,
          Lit("is"), Ws1, Lit("it"), WordB>>),
    Cat(<<WordB, Lit("what"), Words({"'s", " is"}), Ws1, Lit("today"),
          Opt(Lit("'s")), Ws1, Words({"date", "day"}), WordB>>),
    Cat(<<Bol, Words({"who", "what", "where", "when"}), Lit(" "),
          Words({"is", "are", "was", "were"}), Lit(" ")>>),
    Cat(<<Bol, Words({"show", "list", "get", "find", "lookup", "check"}), WordB>>)
  >>

REASONING_PATTERNS == <<
    Cat(<<WordB, Words({"prove", "proof", "theorem", "lemma", "corollary"}), WordB>>),
    Cat(<<WordB, Words({"solve", "equation", "integral", "derivative", "matrix",
                        "eigenvalue"}), WordB>>),
    Cat(<<WordB, Words({"logic", "logical", "syllogism", "contradiction",
                        "induction", "deduction"}), WordB>>),
    Cat(<<WordB, Alt(<<
            Cat(<<Lit("step"), Sep, Lit("by"), Sep, Lit("step")>>),
            Cat(<<Lit("chain"), Sep, Lit("of"), Sep, Lit("thought")>>),
            Cat(<<Lit("reason"), Opt(Lit("ing")), Opt(Lit(" through"))>>)
          >>), WordB>>),
    Cat(<<WordB, Alt(<<
            Words({"algorithm", "complexity", "dynamic programming"}),
            Cat(<<Lit("big"), Sep, Lit("o")>>),
            Cat(<<Lit("np"), Sep, Lit("hard")>>)
          >>), WordB>>),
    Cat(<<WordB, Words({"probability", "bayesian", "statistics", "hypothesis"}),
          WordB>>)
  >>

COMPLEX_PATTERNS == <<
    Cat(<<WordB, Alt(<<
            Cat(<<Lit("architect"), Opt(Lit("ure"))>>),
            Cat(<<Lit("design "), Words({"system", "pattern", "a "})>>)
          >>), WordB>>),
    Cat(<<WordB, Words({"refactor", "rewrite", "implement", "build", "create"}),
          WordB, DotMin(20)>>),
    Cat(<<WordB, Alt(<<
            Cat(<<Lit("multi"), OptSep, Lit("file")>>),
            Words({"codebase", "project", "repository"})
          >>), WordB>>),
    Cat(<<WordB, Alt(<<
            Words({"deploy", "infrastructure", "pipeline", "kubernetes", "docker"}),
            Cat(<<Lit("ci"), Opt(Lit("/")), Lit("cd")>>)
          >>), WordB, DotStar, WordB,
          Words({"architect", "scale", "design", "migration", "cluster",
                 "orchestrat"})>>),
    Cat(<<WordB, Lit("database "), Words({"schema", "design", "migration"}),
          WordB>>),
    Cat(<<WordB, Alt(<<
            Cat(<<Lit("full"), OptSep, Lit("stack")>>),
            Cat(<<Lit("end"), Sep, Lit("to"), Sep, Lit("end")>>),
            Lit("microservice")
          >>), WordB>>)
  >>

MEDIUM_PATTERNS == <<
    Cat(<<WordB, Words({"summarize", "summary", "explain", "review", "analyze",
                        "compare"}), WordB>>),
    Cat(<<WordB, Alt(<<
            Words({"code review", "debug"}),
            Cat(<<Lit("fix "), Words({"this", "the"})>>),
            Cat(<<Lit("what"), Words({"'s", " is"}), Lit(" wrong")>>)
          >>), WordB>>),
    Cat(<<WordB, Words({"convert", "translate", "transform", "format"}), WordB>>),
    Cat(<<WordB, Lit("write "), Opt(Words({"a ", "an "})),
          Words({"function", "class", "test", "script", "query"}), WordB>>),
    Cat(<<WordB, Lit("how "), Words({"do", "does", "to", "can", "should"}),
          WordB>>)
  >>

\* patterns.some((p) => p.test(text)), on the lower-cased text
matchesAny(low, rest, patterns) ==
    \E n \in 1..Len(patterns) : test(patterns[n], low, rest)

\* message.trim(), up to the second filler character
trimmedText(message) ==
    IF message.pad > 0
    THEN SubSeq(message.body, TrimStartIndex(message.body, 1), Len(message.body))
         \o " z"
    ELSE trim(message.body)

\* the filler characters after trimmedText
fillerRest(message) == IF message.pad > 0 THEN message.pad - 2 ELSE 0

\* a classifyByRules that looks at the complex bank before the reasoning bank
classifyByRulesComplexFirst(message, conversationDepth, toolMentions) ==
    LET trimmed == toLowerCase(trimmedText(message))
        rest == fillerRest(message)
        length == Len(trimmed) + rest
        reasoning == matchesAny(trimmed, rest, REASONING_PATTERNS)
        simple == matchesAny(trimmed, rest, SIMPLE_PATTERNS)
    IN  IF length < 20 /\ ~reasoning /\ (simple \/ length < 10) THEN "simple"
        ELSE IF matchesAny(trimmed, rest, COMPLEX_PATTERNS) THEN "complex"
        ELSE IF reasoning THEN "reasoning"
        ELSE IF length > 500 /\ toolMentions >= 2 THEN "complex"
        ELSE IF length > 1000 THEN "complex"
        ELSE IF matchesAny(trimmed, rest, MEDIUM_PATTERNS) THEN "medium"
        ELSE IF length > 100 \/ conversationDepth > 5 THEN "medium"
        ELSE IF simple THEN "simple"
        ELSE "medium"

\* a classifyByRules whose rule for long texts and deep conversations asks
\* for both
classifyByRulesLongAndDeep(message, conversationDepth, toolMentions) ==
    LET trimmed == toLowerCase(trimmedText(message))
        rest == fillerRest(message)
        length == Len(trimmed) + rest
        reasoning == matchesAny(trimmed, rest, REASONING_PATTERNS)
        simple == matchesAny(trimmed, rest, SIMPLE_PATTERNS)
    IN  IF length < 20 /\ ~reasoning /\ (simple \/ length < 10) THEN "simple"
        ELSE IF reasoning THEN "reasoning"
        ELSE IF matchesAny(trimmed, rest, COMPLEX_PATTERNS) THEN "complex"
        ELSE IF length > 500 /\ toolMentions >= 2 THEN "complex"
        ELSE IF length > 1000 THEN "complex"
        ELSE IF matchesAny(trimmed, rest, MEDIUM_PATTERNS) THEN "medium"
        ELSE IF length > 100 /\ conversationDepth > 5 THEN "medium"
        ELSE IF simple THEN "simple"
        ELSE "medium"

\* a classifyByRules whose rule for short texts does not look at the
\* reasoning bank
classifyByRulesShortFirst(message, conversationDepth, toolMentions) ==
    LET trimmed == toLowerCase(trimmedText(message))
        rest == fillerRest(message)
        length == Len(trimmed) + rest
        reasoning == matchesAny(trimmed, rest, REASONING_PATTERNS)
        simple == matchesAny(trimmed, rest, SIMPLE_PATTERNS)
    IN  IF length < 20 /\ (simple \/ length < 10) THEN "simple"
        ELSE IF reasoning THEN "reasoning"
        ELSE IF matchesAny(trimmed, rest, COMPLEX_PATTERNS) THEN "complex"
        ELSE IF length > 500 /\ toolMentions >= 2 THEN "complex"
        ELSE IF length > 1000 THEN "complex"
        ELSE IF matchesAny(trimmed, rest, MEDIUM_PATTERNS) THEN "medium"
        ELSE IF length > 100 \/ conversationDepth > 5 THEN "medium"
        ELSE IF simple THEN "simple"
        ELSE "medium"

classifyByRules(message, conversationDepth, toolMentions) ==
    LET trimmed == toLowerCase(trimmedText(message))
        rest == fillerRest(message)
        length == Len(trimmed) + rest
        reasoning == matchesAny(trimmed, rest, REASONING_PATTERNS)
        simple == matchesAny(trimmed, rest, SIMPLE_PATTERNS)
    IN  IF length < 20 /\ ~reasoning /\ (simple \/ length < 10) THEN "simple"
        ELSE IF reasoning THEN "reasoning"
        ELSE IF matchesAny(trimmed, rest, COMPLEX_PATTERNS) THEN "complex"
        ELSE IF length > 500 /\ toolMentions >= 2 THEN "complex"
        ELSE IF length > 1000 THEN "complex"
        ELSE IF matchesAny(trimmed, rest, MEDIUM_PATTERNS) THEN "medium"
        ELSE IF length > 100 \/ conversationDepth > 5 THEN "medium"
        ELSE IF simple THEN "simple"
        ELSE "medium"

(***************************************************************************)
(* Optional values: a string field that is not set holds Undef; any other  *)
(* value v that may be absent is None or Some(v).                          *)
(***************************************************************************)
None == <<>>

Some(v) == <<v>>

IsSome(o) == o # None

Get(o) == o[1]

\* o ?? d
OrElse(o, d) == IF IsSome(o) THEN Get(o) ELSE d

\* s ?? d for a string field
StrOrElse(s, d) == IF s = Undef THEN d ELSE s

Tiers == <<"simple", "medium", "complex", "reasoning">>

TierSet == {Tiers[n] : n \in 1..Len(Tiers)}

(***************************************************************************)
(* Constants of auto-router.ts                                             *)
(***************************************************************************)
DEFAULT_PROVIDER == "anthropic"

DEFAULT_TIERS ==
    [simple |-> "anthropic/claude-haiku-3-5",
     medium |-> "anthropic/claude-sonnet-4-20250514",
     complex |-> "anthropic/claude-opus-4-6",
     reasoning |-> "anthropic/claude-opus-4-6"]

TIER_REQUIREMENTS ==
    [simple |-> [minContext |-> 4000, needsReasoning |-> FALSE],
     medium |-> [minContext |-> 32000, needsReasoning |-> FALSE],
     complex |-> [minContext |-> 100000, needsReasoning |-> FALSE],
     reasoning |-> [minContext |-> 100000, needsReasoning |-> TRUE]]

\* the last resort of resolveAutoModel
HardcodedRef == [provider |-> "anthropic", model |-> "claude-opus-4-6"]

(***************************************************************************)
(* parseModelRef of model-selection.ts: "provider/model", or a bare model  *)
(* id that takes the default provider; null (None) when a part is empty.   *)
(***************************************************************************)
parseModelRef(raw, defaultProvider) ==
    LET trimmed == trim(raw)
        slash == IndexOfSlash(trimmed, 1)
        provider == trim(SubSeq(trimmed, 1, slash - 1))
        model == trim(SubSeq(trimmed, slash + 1, Len(trimmed)))
    IN  IF trimmed = "" THEN None
        ELSE IF slash = 0
        THEN Some([provider |-> defaultProvider, model |-> trimmed])
        ELSE IF provider = "" \/ model = "" THEN None
        ELSE Some([provider |-> provider, model |-> model])

(***************************************************************************)
(* Model scorer. The component scores and the weights are multiples of     *)
(* 0.05 and are kept in twentieths (0.5 is 10, 0.85 is 17, 1.0 is 20); a   *)
(* cost is a whole number of dollars per million tokens, so that           *)
(* costEfficiency = 1 / (1 + cost * 0.1) is the exact fraction             *)
(* 10 / (10 + cost), kept as [num, den] in twentieths. A total score is    *)
(* the exact fraction [num, den] in units of 1/400.                        *)
(***************************************************************************)
estimateQuality(provider, model) ==
    LET id == toLowerCase(provider \o "/" \o model)
    IN  IF includes(id, "opus") THEN 20
        ELSE IF includes(id, "sonnet") THEN 16
        ELSE IF includes(id, "gpt-4o") /\ ~includes(id, "mini") THEN 17
        ELSE IF includes(id, "gpt-4.1") /\ ~includes(id, "mini")
                /\ ~includes(id, "nano") THEN 17
        ELSE IF includes(id, "gemini-2.5-pro") THEN 17
        ELSE IF includes(id, "haiku") \/ includes(id, "mini")
                \/ includes(id, "nano") THEN 10
        ELSE IF includes(id, "flash") THEN 11
        ELSE 12

estimateLatency(provider, model) ==
    LET id == toLowerCase(provider \o "/" \o model)
    IN  IF includes(id, "haiku") \/ includes(id, "flash") \/ includes(id, "mini")
           \/ includes(id, "nano") THEN 20
        ELSE IF includes(id, "sonnet") \/ includes(id, "gpt-4o") THEN 14
        ELSE IF includes(id, "opus") THEN 6
        ELSE 10

Min(a, b) == IF a <= b THEN a ELSE b

\* the weights with the tables of cost and quality exchanged
weightsForExchanged(preference) ==
    IF preference = "quality" THEN [cap |-> 4, cost |-> 10, quality |-> 3, latency |-> 3]
    ELSE IF preference = "cost"
    THEN [cap |-> 6, cost |-> 2, quality |-> 10, latency |-> 2]
    ELSE [cap |-> 8, cost |-> 6, quality |-> 4, latency |-> 2]

\* let weights = ...; the preference selects the table
weightsFor(preference) ==
    IF preference = "cost" THEN [cap |-> 4, cost |-> 10, quality |-> 3, latency |-> 3]
    ELSE IF preference = "quality"
    THEN [cap |-> 6, cost |-> 2, quality |-> 10, latency |-> 2]
    ELSE [cap |-> 8, cost |-> 6, quality |-> 4, latency |-> 2]

\* hard filters that look at the context window only
hardFilteredContextOnly(def, tier) ==
    def.contextWindow < TIER_REQUIREMENTS[tier].minContext

\* hard filters that also exclude a context window of exactly the minimum
hardFilteredAtMinimum(def, tier) ==
    LET reqs == TIER_REQUIREMENTS[tier]
    IN  \/ def.contextWindow <= reqs.minContext
        \/ reqs.needsReasoning /\ ~def.reasoning

\* the hard filters of scoreModel: TRUE when def is excluded
hardFiltered(def, tier) ==
    LET reqs == TIER_REQUIREMENTS[tier]
    IN  \/ def.contextWindow < reqs.minContext
        \/ reqs.needsReasoning /\ ~def.reasoning

\* a capability match without Math.min(1.0, .)
capabilityMatchUnclamped(def, tier) ==
    10 + (IF def.contextWindow >= 100000 THEN 4 ELSE 0)
       + (IF def.reasoning /\ tier = "reasoning" THEN 6 ELSE 0)
       + (IF IsSome(def.input) /\ "image" \in Get(def.input) THEN 2 ELSE 0)

capabilityMatchOf(def, tier) ==
    Min(20, 10 + (IF def.contextWindow >= 100000 THEN 4 ELSE 0)
               + (IF def.reasoning /\ tier = "reasoning" THEN 6 ELSE 0)
               + (IF IsSome(def.input) /\ "image" \in Get(def.input) THEN 2 ELSE 0))

\* a cost efficiency without the case of a cost of 0: 0 for nothing to divide
costEfficiencyZeroForFree(def) ==
    LET costPerMToken == def.cost.input + def.cost.output
        ratio == [num |-> 20 * 10, den |-> 10 + costPerMToken]
    IN  IF costPerMToken > 0 THEN ratio ELSE [num |-> 0, den |-> 1]

costEfficiencyOf(def) ==
    LET costPerMToken == def.cost.input + def.cost.output
        ratio == [num |-> 20 * 10, den |-> 10 + costPerMToken]
        one == [num |-> 20, den |-> 1]
    IN  IF costPerMToken > 0
        THEN (IF ratio.num <= one.num * ratio.den THEN ratio ELSE one)
        ELSE one

scoreModel(def, provider, tier, preference) ==
    IF hardFiltered(def, tier) THEN None
    ELSE LET capabilityMatch == capabilityMatchOf(def, tier)
             costEfficiency == costEfficiencyOf(def)
             qualityRating == estimateQuality(provider, def.id)
             latencyEst == estimateLatency(provider, def.id)
             weights == weightsFor(preference)
             score == [num |-> (capabilityMatch * weights.cap
                                + qualityRating * weights.quality
                                + latencyEst * weights.latency) * costEfficiency.den
                               + costEfficiency.num * weights.cost,
                       den |-> costEfficiency.den]
         IN  Some([provider |-> provider,
                   model |-> def.id,
                   score |-> score,
                   capabilityMatch |-> capabilityMatch,
                   costEfficiency |-> costEfficiency,
                   qualityRating |-> qualityRating,
                   latencyEstimate |-> latencyEst])

\* a.score < b.score, a.score = b.score
ScoreLess(a, b) == a.score.num * b.score.den < b.score.num * a.score.den

ScoreEq(a, b) == a.score.num * b.score.den = b.score.num * a.score.den

\* scoreModels, first loop: the models of the configured providers
RECURSIVE scoreProviderModels(_, _, _, _, _)
scoreProviderModels(models, n, providerName, tier, preference) ==
    IF n > Len(models) THEN <<>>
    ELSE LET result == scoreModel(models[n], providerName, tier, preference)
         IN  (IF IsSome(result) THEN <<Get(result)>> ELSE <<>>)
             \o scoreProviderModels(models, n + 1, providerName, tier, preference)

RECURSIVE scoreProviders(_, _, _, _)
scoreProviders(providers, n, tier, preference) ==
    IF n > Len(providers) THEN <<>>
    ELSE scoreProviderModels(OrElse(providers[n].models, <<>>), 1,
                             providers[n].name, tier, preference)
         \o scoreProviders(providers, n + 1, tier, preference)

\* the synthetic ModelDefinitionConfig of a catalog entry
syntheticDef(entry) ==
    [id |-> entry.id,
     reasoning |-> OrElse(entry.reasoning, FALSE),
     input |-> Some(OrElse(entry.input, {"text"})),
     cost |-> [input |-> 0, output |-> 0],
     contextWindow |-> OrElse(entry.contextWindow, 128000)]

\* scores.some((s) => s.provider === entry.provider && s.model === entry.id)
alreadyScored(scores, entry) ==
    \E k \in 1..Len(scores) :
        scores[k].provider = entry.provider /\ scores[k].model = entry.id

\* scoreModels, second loop: the catalog entries
RECURSIVE scoreCatalog(_, _, _, _, _)
scoreCatalog(catalog, n, scores, tier, preference) ==
    IF n > Len(catalog) THEN scores
    ELSE IF alreadyScored(scores, catalog[n])
    THEN scoreCatalog(catalog, n + 1, scores, tier, preference)
    ELSE LET result == scoreModel(syntheticDef(catalog[n]), catalog[n].provider,
                                  tier, preference)
         IN  scoreCatalog(catalog, n + 1,
                          IF IsSome(result) THEN Append(scores, Get(result))
                          ELSE scores,
                          tier, preference)

\* a sort that is not stable: an element goes before those of equal score
insertBeforeEqual(sorted, e) ==
    LET after == {k \in 1..Len(sorted) : ~ScoreLess(e, sorted[k])}
        at == IF after = {} THEN Len(sorted) + 1
              ELSE CHOOSE k \in after : \A j \in after : k <= j
    IN  SubSeq(sorted, 1, at - 1) \o <<e>> \o SubSeq(sorted, at, Len(sorted))

\* Array.prototype.sort with (a, b) => b.score - a.score: stable, descending
insertByScore(sorted, e) ==
    LET after == {k \in 1..Len(sorted) : ScoreLess(sorted[k], e)}
        at == IF after = {} THEN Len(sorted) + 1
              ELSE CHOOSE k \in after : \A j \in after : k <= j
    IN  SubSeq(sorted, 1, at - 1) \o <<e>> \o SubSeq(sorted, at, Len(sorted))

RECURSIVE sortByScore(_, _, _)
sortByScore(scores, n, sorted) ==
    IF n > Len(scores) THEN sorted
    ELSE sortByScore(scores, n + 1, insertByScore(sorted, scores[n]))

scoreModels(tier, cfg, catalog, preference) ==
    LET providers == OrElse(cfg.providers, <<>>)
        declared == scoreProviders(providers, 1, tier, preference)
        scores == scoreCatalog(catalog, 1, declared, tier, preference)
    IN  sortByScore(scores, 1, <<>>)

(***************************************************************************)
(* resolveAutoModel                                                        *)
(***************************************************************************)
\* cfg.agents?.defaults?.model is absent (None), a string, or an object
getAutoRouterConfig(cfg) ==
    IF ~IsSome(cfg.model) THEN None
    ELSE IF Get(cfg.model).isString THEN None
    ELSE Get(cfg.model).auto

NoTiers == [simple |-> Undef, medium |-> Undef, complex |-> Undef,
            reasoning |-> Undef]

\* s is a string that is set and not empty
Truthy(s) == s # Undef /\ s # ""

autoConfigOf(params) == getAutoRouterConfig(params.cfg)

\* autoConfig?.preference ?? "balanced"
preferenceOf(params) ==
    IF IsSome(autoConfigOf(params))
    THEN StrOrElse(Get(autoConfigOf(params)).preference, "balanced")
    ELSE "balanced"

\* autoConfig?.tiers ?? {}
tiersOf(params) ==
    IF IsSome(autoConfigOf(params))
    THEN OrElse(Get(autoConfigOf(params)).tiers, NoTiers)
    ELSE NoTiers

\* a step 2 that answers an override that does not parse with the last resort
tierOverrideOrLastResort(params, tier) ==
    LET tierModel == tiersOf(params)[tier]
    IN  IF Truthy(tierModel)
        THEN Some(OrElse(parseModelRef(tierModel, DEFAULT_PROVIDER), HardcodedRef))
        ELSE None

\* step 2: the explicit tier override, parsed (None: no override applies)
tierOverride(params, tier) ==
    LET tierModel == tiersOf(params)[tier]
    IN  IF Truthy(tierModel) THEN parseModelRef(tierModel, DEFAULT_PROVIDER)
        ELSE None

\* autoConfig?.autoDiscover !== false
shouldDiscover(params) ==
    ~(IsSome(autoConfigOf(params))
      /\ Get(autoConfigOf(params)).autoDiscover = Some(FALSE))

\* step 3: the ranked scores (empty: nothing to pick from)
discover(params, tier) ==
    IF shouldDiscover(params) /\ IsSome(params.catalog)
       /\ Len(Get(params.catalog)) > 0
    THEN scoreModels(tier, params.cfg, Get(params.catalog), preferenceOf(params))
    ELSE <<>>

\* a step 4 that goes to the last resort at once
fallbackRefHardcoded(tier) == HardcodedRef

\* step 4: the hardcoded default of the tier
fallbackRef(tier) ==
    OrElse(parseModelRef(DEFAULT_TIERS[tier], DEFAULT_PROVIDER), HardcodedRef)

Selected(tier, ref) == [tier |-> tier, selectedModel |-> ref, scores |-> None]

\* a result that reports the top three scores
DiscoveredTopThree(tier, scores) ==
    [tier |-> tier,
     selectedModel |-> [provider |-> scores[1].provider, model |-> scores[1].model],
     scores |-> Some(SubSeq(scores, 1, Min(3, Len(scores))))]

Discovered(tier, scores) ==
    [tier |-> tier,
     selectedModel |-> [provider |-> scores[1].provider, model |-> scores[1].model],
     scores |-> Some(SubSeq(scores, 1, Min(5, Len(scores))))]

\* a resolveAutoModel that scores before it looks at the override
selectModelScoresFirst(params, tier) ==
    LET override == tierOverride(params, tier)
        scores == discover(params, tier)
    IN  IF Len(scores) > 0 THEN Discovered(tier, scores)
        ELSE IF IsSome(override) THEN Selected(tier, Get(override))
        ELSE Selected(tier, fallbackRef(tier))

\* resolveAutoModel from step 2 on, for the tier that classifyTask returned
selectModel(params, tier) ==
    LET override == tierOverride(params, tier)
        scores == discover(params, tier)
    IN  IF IsSome(override) THEN Selected(tier, Get(override))
        ELSE IF Len(scores) > 0 THEN Discovered(tier, scores)
        ELSE Selected(tier, fallbackRef(tier))

(***************************************************************************)
(* LLM classifier                                                          *)
(***************************************************************************)
\* Object.entries(TIER_MAP), in insertion order
TIER_MAP == << <<"SIMPLE", "simple">>, <<"MEDIUM", "medium">>,
               <<"COMPLEX", "complex">>, <<"REASONING", "reasoning">> >>

\* the models that getModel of pi-ai knows; for any other it throws or
\* returns undefined
KnownModels == {[provider |-> "openai", model |-> "gpt-4.1-nano"]}

resolveClassifierModel(modelRef) ==
    LET slash == IndexOfSlash(modelRef, 1)
        provider == SubSeq(modelRef, 1, slash - 1)
        modelId == SubSeq(modelRef, slash + 1, Len(modelRef))
    IN  IF slash = 0 THEN None
        ELSE IF [provider |-> provider, model |-> modelId] \in KnownModels
        THEN Some([provider |-> provider, model |-> modelId])
        ELSE None

\* a label search that returns the tier of the label that stands first in
\* the text
extractTierByPosition(text, n) ==
    LET at(k) == {i \in 1..(Len(text) - Len(TIER_MAP[k][1]) + 1) :
                    SubSeq(text, i, i + Len(TIER_MAP[k][1]) - 1) = TIER_MAP[k][1]}
        found == {k \in n..Len(TIER_MAP) : at(k) # {}}
    IN  IF found = {} THEN None
        ELSE LET first == CHOOSE k \in found :
                              \A j \in found : \E i \in at(k) : \A m \in at(j) : i <= m
             IN  Some(TIER_MAP[first][2])

\* for (const [key, tier] of Object.entries(TIER_MAP)) if (text.includes(key)) return tier
RECURSIVE extractTier(_, _)
extractTier(text, n) ==
    IF n > Len(TIER_MAP) THEN None
    ELSE IF includes(text, TIER_MAP[n][1]) THEN Some(TIER_MAP[n][2])
    ELSE extractTier(text, n + 1)

\* a catch block that rethrows
onCallErrorRethrows == [threw |-> TRUE, tier |-> None]

\* the catch block of classifyWithLLM
onCallError == [threw |-> FALSE, tier |-> None]

\* a classifyWithLLM that reads the answer only while the signal is not
\* aborted
classifyWithLLMUnlessAborted(call) ==
    IF call.state = "rejected" \/ call.aborted THEN onCallError
    ELSE [threw |-> FALSE,
          tier |-> extractTier(toUpperCase(trim(call.text)), 1)]

\* classifyWithLLM once completeSimple has settled
classifyWithLLMResult(call) ==
    IF call.state = "rejected" THEN onCallError
    ELSE [threw |-> FALSE,
          tier |-> extractTier(toUpperCase(trim(call.text)), 1)]

\* a classifyTask that does not look at the classifier mode
llmConfiguredByModelAlone(autoConfig) ==
    /\ IsSome(autoConfig)
    /\ Truthy(Get(autoConfig).classifierModel)

\* classifyTask: is the LLM classifier configured
llmConfigured(autoConfig) ==
    /\ IsSome(autoConfig)
    /\ Get(autoConfig).classifier = "llm"
    /\ Truthy(Get(autoConfig).classifierModel)

(***************************************************************************)
(* The calls that are checked                                              *)
(***************************************************************************)
MaxCatalog == 2

Msg(body) == [body |-> body, pad |-> 0]

\* message, conversationDepth, toolMentions
Tasks == {
    <<Msg("hi"), None, None>>,
    <<Msg("Explain how React hooks work"), None, None>>,
    <<Msg("refactor the codebase"), None, Some(3)>>,
    <<Msg("prove that sqrt 2 is irrational"), None, None>>,
    <<Msg("thanks for all of it, see you"), None, None>>,
    <<Msg("thanks for all of it, see you"), Some(6), Some(0)>> }

\* one task per tier
TierTasks == {t \in Tasks : t[2] = None /\ t[1].body # "thanks for all of it, see you"}

\* ModelDefinitionConfig entries of cfg.models.providers
SonnetDef == [id |-> "claude-sonnet-4-20250514", reasoning |-> FALSE,
              input |-> Some({"text", "image"}),
              cost |-> [input |-> 3, output |-> 15], contextWindow |-> 200000]

HaikuDef == [id |-> "claude-haiku-3-5", reasoning |-> FALSE,
             input |-> Some({"text"}),
             cost |-> [input |-> 1, output |-> 4], contextWindow |-> 16000]

Gpt4oDef == [id |-> "gpt-4o", reasoning |-> FALSE, input |-> None,
             cost |-> [input |-> 0, output |-> 0], contextWindow |-> 128000]

OpusDef == [id |-> "claude-opus-4-6", reasoning |-> TRUE,
            input |-> Some({"text", "image"}),
            cost |-> [input |-> 15, output |-> 75], contextWindow |-> 200000]

\* gpt-4o as the provider nanogpt declares it
NanoGpt4oDef == [id |-> "gpt-4o", reasoning |-> FALSE,
                 input |-> Some({"text", "image"}),
                 cost |-> [input |-> 4, output |-> 15], contextWindow |-> 64000]

MistralDef == [id |-> "mistral-large", reasoning |-> TRUE, input |-> None,
               cost |-> [input |-> 2, output |-> 6], contextWindow |-> 128000]

ProviderMaps == {
    None,
    Some(<< [name |-> "anthropic", models |-> Some(<<SonnetDef, HaikuDef>>)],
            [name |-> "local", models |-> None] >>),
    Some(<< [name |-> "openai", models |-> Some(<<Gpt4oDef>>)],
            [name |-> "anthropic", models |-> Some(<<OpusDef>>)] >>) }

\* ModelCatalogEntry
Entry(provider, id, reasoning, input, contextWindow) ==
    [provider |-> provider, id |-> id, reasoning |-> reasoning, input |-> input,
     contextWindow |-> contextWindow]

CatalogPool == {
    Entry("anthropic", "claude-sonnet-4-20250514", None, None, None),
    Entry("anthropic", "claude-haiku-3-5", None, None, None),
    Entry("google", "gemini-2.5-flash", Some(TRUE), Some({"text", "image"}),
          Some(1000000)),
    Entry("acme", "tiny", Some(FALSE), None, Some(2000)) }

SeqsUpTo(S, n) == UNION {[1..k -> S] : k \in 0..n}

Catalogs == {None} \cup {Some(cat) : cat \in SeqsUpTo(CatalogPool, MaxCatalog)}

TierMaps == {
    None,
    Some([simple |-> "anthropic/claude-haiku-3-5",
          medium |-> "anthropic/claude-haiku-3-5",
          complex |-> "claude-haiku-3-5",
          reasoning |-> " openai/gpt-4o-mini "]),
    Some([simple |-> "/", medium |-> "", complex |-> "openai/",
          reasoning |-> "  "]),
    Some([simple |-> Undef, medium |-> "openai/gpt-4o", complex |-> Undef,
          reasoning |-> "/x"]) }

\* classifier, classifierModel, classifierTimeout
ClassifierSettings == {
    <<Undef, Undef, None>>,
    <<Undef, "openai/gpt-4.1-nano", None>>,
    <<"rules", "openai/gpt-4.1-nano", Some(1000)>>,
    <<"llm", Undef, None>>,
    <<"llm", "", None>>,
    <<"llm", "gpt-4.1-nano", None>>,
    <<"llm", "acme/unknown", None>>,
    <<"llm", "openai/gpt-4.1-nano", None>>,
    <<"llm", "openai/gpt-4.1-nano", Some(1000)>> }

AutoConfig(cs, preference, tiers, autoDiscover) ==
    [classifier |-> cs[1], classifierModel |-> cs[2], classifierTimeout |-> cs[3],
     preference |-> preference, tiers |-> tiers, autoDiscover |-> autoDiscover]

\* cfg.agents.defaults.model: absent, a string, an object without auto
PlainModels == {None, Some([isString |-> TRUE, auto |-> None]),
                Some([isString |-> FALSE, auto |-> None])}

AutoModel(autoConfig) == Some([isString |-> FALSE, auto |-> Some(autoConfig)])

Variants == {"rulesOnly", "withLLM"}

Request(variant, task, model, providers, catalog) ==
    [variant |-> variant, message |-> task[1], conversationDepth |-> task[2],
     toolMentions |-> task[3], cfg |-> [model |-> model, providers |-> providers],
     catalog |-> catalog]

\* every classifier setting, with a few model selections
ClassifyRequests ==
    {Request(v, t, m, p, Some(<<Entry("google", "gemini-2.5-flash", Some(TRUE),
                                       None, None)>>)) :
        v \in Variants, t \in Tasks, p \in {None},
        m \in PlainModels \cup
              {AutoModel(AutoConfig(cs, "balanced", tm, None)) :
                   cs \in ClassifierSettings,
                   tm \in {None, Some([NoTiers EXCEPT !.complex = "openai/gpt-4o"])}}}

RulesOnly == <<Undef, Undef, None>>

\* the rules as the classifier, every tier override, the catalogs of at most
\* one entry, in the variant with the LLM classifier
OverrideRequests ==
    {Request("withLLM", t, AutoModel(AutoConfig(RulesOnly, Undef, tm, ad)), p, cat) :
        t \in TierTasks, tm \in TierMaps,
        ad \in {None, Some(TRUE), Some(FALSE)},
        p \in {pm \in ProviderMaps : IsSome(pm)},
        cat \in {ct \in Catalogs : IsSome(ct) => Len(Get(ct)) <= 1}}

\* the rules as the classifier, no tier override, every catalog, in the
\* variant without the LLM classifier
ScoreRequests ==
    {Request("rulesOnly", t, m, p, cat) :
        t \in TierTasks, p \in ProviderMaps, cat \in Catalogs,
        m \in {None} \cup
              {AutoModel(AutoConfig(RulesOnly, pref, None, ad)) :
                   pref \in {Undef, "cost", "quality"},
                   ad \in {None, Some(TRUE), Some(FALSE)}}}

\* six declared backends of four providers
WideProviders ==
    Some(<< [name |-> "openai", models |-> Some(<<Gpt4oDef>>)],
            [name |-> "anthropic", models |-> Some(<<SonnetDef, OpusDef, HaikuDef>>)],
            [name |-> "nanogpt", models |-> Some(<<NanoGpt4oDef>>)],
            [name |-> "mistral", models |-> Some(<<MistralDef>>)] >>)

\* catalogs with gpt-4o as two more providers list it, without metadata
WideCatalogs == {
    <<Entry("azure", "gpt-4o", None, None, None)>>,
    <<Entry("azure", "gpt-4o", None, None, None),
      Entry("github", "gpt-4o", None, None, None)>>,
    <<Entry("github", "gpt-4o", None, None, None),
      Entry("google", "gemini-2.5-flash", Some(TRUE), Some({"text", "image"}),
            Some(1000000)),
      Entry("azure", "gpt-4o", None, None, None)>> }

\* the rules as the classifier, no tier override, many candidates
WideRequests ==
    {Request("rulesOnly", t, m, WideProviders, Some(cat)) :
        t \in TierTasks, cat \in WideCatalogs,
        m \in {None} \cup {AutoModel(AutoConfig(RulesOnly, pref, None, None)) :
                               pref \in {"cost", "quality"}}}

\* the requests of two calls in progress at once: both variants, the LLM
\* classifier configured, not resolving, and not configured
PairRequests ==
    {Request(v, t, AutoModel(AutoConfig(cs, "balanced", None, None)), None,
             Some(<<Entry("google", "gemini-2.5-flash", Some(TRUE), None, None)>>)) :
        v \in Variants,
        t \in {<<Msg("hi"), None, None>>,
               <<Msg("prove that sqrt 2 is irrational"), None, None>>},
        cs \in {RulesOnly, <<"llm", "acme/unknown", None>>,
                <<"llm", "openai/gpt-4.1-nano", None>>}}

Requests ==
    ClassifyRequests \cup OverrideRequests \cup ScoreRequests \cup WideRequests

\* classifyTask's call of classifyByRules, conversationDepth and toolMentions
\* defaulting to 0
classifyTaskByRules(message, conversationDepth, toolMentions) ==
    classifyByRules(message, OrElse(conversationDepth, 0), OrElse(toolMentions, 0))

\* the same, computed once for each task
RulesTierOf == [t \in Tasks |-> classifyTaskByRules(t[1], t[2], t[3])]

rulesTier(params) ==
    RulesTierOf[<<params.message, params.conversationDepth, params.toolMentions>>]

(***************************************************************************)
(* Direct calls of classifyByRules: texts built from one phrase of each    *)
(* pattern bank, padded to the lengths where the rules change.             *)
(***************************************************************************)
MaxDepth == 6

MaxTools == 2

\* "hi" matches the simple bank (at the start only), "prove" the reasoning
\* bank, "codebase" the complex bank, "debug" the medium bank, "well" none
RuleBodies == {"well", "hi", "prove", "codebase", "debug", "hi prove",
               "hi codebase", "hi debug", "prove codebase", "prove debug",
               "codebase debug", "hi prove codebase", "hi prove debug",
               "hi codebase debug", "prove codebase debug",
               "hi prove codebase debug", "build", "", "  Hi  ", "   "}

\* trimmed lengths on both sides of every threshold of the rules
RuleLengths == {9, 10, 19, 20, 24, 25, 100, 101, 500, 501, 1000, 1001}

RuleMessages ==
    UNION {{Msg(b)} \cup {[body |-> b, pad |-> l - Len(b)] :
                              l \in {k \in RuleLengths : k >= Len(b) + 2}} :
           b \in RuleBodies}

\* message, conversationDepth, toolMentions
RuleTasks == RuleMessages \X (0..MaxDepth) \X (0..MaxTools)

RuleCall(task) ==
    [variant |-> "classifyByRules", message |-> task[1],
     conversationDepth |-> task[2], toolMentions |-> task[3]]

\* classifyByRules, computed once for each task
classifyByRulesOf == [t \in RuleTasks |-> classifyByRules(t[1], t[2], t[3])]

(***************************************************************************)
(* State: one entry per resolveAutoModel call in progress.                 *)
(***************************************************************************)
VARIABLES
    req,      \* the call's parameters and the variant of auto-router.ts it runs
    pc,       \* where the call is
    tier,     \* what classifyTask returned ("" before)
    llm,      \* the completeSimple call, its timer and its abort signal
    invoked,  \* how many times the call invoked completeSimple
    result    \* the AutoRouterResult returned (None before)

vars == <<req, pc, tier, llm, invoked, result>>

CallIds == DOMAIN pc

IdleLLM == [state |-> "idle", text |-> "", timer |-> "unset", timeoutMs |-> 0,
            aborted |-> FALSE, tier |-> None]

\* resolveAutoModel of auto-router.ts (rules only): synchronous, one step
ResolveRulesOnly(c) ==
    /\ pc[c] = "start"
    /\ req[c].variant = "rulesOnly"
    /\ LET t == rulesTier(req[c])
       IN  /\ tier' = [tier EXCEPT ![c] = t]
           /\ result' = [result EXCEPT ![c] = Some(selectModel(req[c], t))]
    /\ pc' = [pc EXCEPT ![c] = "done"]
    /\ UNCHANGED <<req, llm, invoked>>

\* resolveAutoModel with the LLM classifier, up to the await of classifyTask:
\* the rules when the LLM classifier is not configured
ClassifyTaskRules(c) ==
    /\ pc[c] = "start"
    /\ req[c].variant = "withLLM"
    /\ ~llmConfigured(autoConfigOf(req[c]))
    /\ tier' = [tier EXCEPT ![c] = rulesTier(req[c])]
    /\ pc' = [pc EXCEPT ![c] = "classified"]
    /\ UNCHANGED <<req, llm, invoked, result>>

\* classifyWithLLM returns null without a call: the classifier model does not
\* resolve, and classifyTask falls through to the rules
ClassifyTaskUnresolved(c) ==
    /\ pc[c] = "start"
    /\ req[c].variant = "withLLM"
    /\ llmConfigured(autoConfigOf(req[c]))
    /\ ~IsSome(resolveClassifierModel(Get(autoConfigOf(req[c])).classifierModel))
    /\ tier' = [tier EXCEPT ![c] = rulesTier(req[c])]
    /\ pc' = [pc EXCEPT ![c] = "classified"]
    /\ UNCHANGED <<req, llm, invoked, result>>

\* classifyWithLLM arms the timer and invokes completeSimple
InvokeCompleteSimple(c) ==
    /\ pc[c] = "start"
    /\ req[c].variant = "withLLM"
    /\ llmConfigured(autoConfigOf(req[c]))
    /\ LET autoConfig == Get(autoConfigOf(req[c]))
       IN  /\ IsSome(resolveClassifierModel(autoConfig.classifierModel))
           /\ llm' = [llm EXCEPT ![c] =
                        [IdleLLM EXCEPT !.state = "pending", !.timer = "armed",
                            !.timeoutMs = OrElse(autoConfig.classifierTimeout, 3000)]]
    /\ invoked' = [invoked EXCEPT ![c] = @ + 1]
    /\ pc' = [pc EXCEPT ![c] = "awaiting"]
    /\ UNCHANGED <<req, tier, result>>

\* what completeSimple may answer (the text blocks of result.content, joined)
Responses == {"SIMPLE", " medium\n", "Category: Complex", "reasoning",
              "MEDIUM, not SIMPLE", "unsure", ""}

\* completeSimple resolves; with the signal aborted it may still resolve, with
\* what it holds by then
CompleteSimpleResolves(c) ==
    /\ pc[c] = "awaiting"
    /\ llm[c].state = "pending"
    /\ \E text \in Responses :
           llm' = [llm EXCEPT ![c].state = "resolved", ![c].text = text]
    /\ UNCHANGED <<req, pc, tier, invoked, result>>

\* completeSimple rejects: the call fails, or the abort ends it
CompleteSimpleRejects(c) ==
    /\ pc[c] = "awaiting"
    /\ llm[c].state = "pending"
    /\ llm' = [llm EXCEPT ![c].state = "rejected"]
    /\ UNCHANGED <<req, pc, tier, invoked, result>>

\* a timer whose controller is shared by the calls: it aborts every pending
\* completeSimple call
TimerFiresShared(c) ==
    /\ pc[c] = "awaiting"
    /\ llm[c].state = "pending"
    /\ llm[c].timer = "armed"
    /\ llm' = [d \in CallIds |->
                 IF d = c THEN [llm[d] EXCEPT !.timer = "fired", !.aborted = TRUE]
                 ELSE IF llm[d].state = "pending"
                 THEN [llm[d] EXCEPT !.aborted = TRUE]
                 ELSE llm[d]]
    /\ UNCHANGED <<req, pc, tier, invoked, result>>

\* setTimeout(() => controller.abort(), timeoutMs) fires
TimerFires(c) ==
    /\ pc[c] = "awaiting"
    /\ llm[c].state = "pending"
    /\ llm[c].timer = "armed"
    /\ llm' = [llm EXCEPT ![c].timer = "fired", ![c].aborted = TRUE]
    /\ UNCHANGED <<req, pc, tier, invoked, result>>

\* a classifyTask that calls classifyWithLLM again when it returned null
ClassifyWithLLMRetries(c) ==
    /\ pc[c] = "awaiting"
    /\ llm[c].state \in {"resolved", "rejected"}
    /\ LET r == classifyWithLLMResult(llm[c])
       IN  IF IsSome(r.tier)
           THEN /\ llm' = [llm EXCEPT ![c].timer = "cleared", ![c].tier = r.tier]
                /\ pc' = [pc EXCEPT ![c] = "classified"]
                /\ tier' = [tier EXCEPT ![c] = Get(r.tier)]
           ELSE /\ llm' = [llm EXCEPT ![c] = IdleLLM]
                /\ pc' = [pc EXCEPT ![c] = "start"]
                /\ tier' = tier
    /\ UNCHANGED <<req, invoked, result>>

\* the await of completeSimple ends: classifyWithLLM returns (its finally
\* clears the timer) and classifyTask takes its tier or falls through to the
\* rules
ClassifyWithLLMReturns(c) ==
    /\ pc[c] = "awaiting"
    /\ llm[c].state \in {"resolved", "rejected"}
    /\ LET r == classifyWithLLMResult(llm[c])
       IN  /\ llm' = [llm EXCEPT ![c].timer = "cleared", ![c].tier = r.tier]
           /\ IF r.threw
              THEN /\ pc' = [pc EXCEPT ![c] = "failed"]
                   /\ tier' = tier
              ELSE /\ pc' = [pc EXCEPT ![c] = "classified"]
                   /\ tier' = [tier EXCEPT ![c] =
                                 IF IsSome(r.tier) THEN Get(r.tier)
                                 ELSE rulesTier(req[c])]
    /\ UNCHANGED <<req, invoked, result>>

\* resolveAutoModel after the await of classifyTask: steps 2 to 4
ResolveFinish(c) ==
    /\ pc[c] = "classified"
    /\ result' = [result EXCEPT ![c] = Some(selectModel(req[c], tier[c]))]
    /\ pc' = [pc EXCEPT ![c] = "done"]
    /\ UNCHANGED <<req, tier, llm, invoked>>

\* a direct call of classifyByRules returns
ClassifyByRulesCall(c) ==
    /\ pc[c] = "start"
    /\ req[c].variant = "classifyByRules"
    /\ tier' = [tier EXCEPT ![c] =
                  classifyByRulesOf[<<req[c].message, req[c].conversationDepth,
                                      req[c].toolMentions>>]]
    /\ pc' = [pc EXCEPT ![c] = "returned"]
    /\ UNCHANGED <<req, llm, invoked, result>>

(***************************************************************************)
(* Direct calls of scoreModel, two at a time on descriptors that differ in *)
(* cost at most.                                                           *)
(***************************************************************************)
MaxCost == 15

\* cost.input, cost.output
ScoreCosts == {<<0, 0>>, <<0, 1>>, <<1, 0>>, <<1, 1>>, <<MaxCost, 5 * MaxCost>>}

\* context windows on both sides of every minimum
ScoreContexts == {3999, 4000, 31999, 32000, 99999, 100000}

Preferences == {"cost", "balanced", "quality"}

ScoreDef(contextWindow, reasoning, input, cost) ==
    [id |-> "claude-opus-4-6", reasoning |-> reasoning, input |-> input,
     cost |-> [input |-> cost[1], output |-> cost[2]],
     contextWindow |-> contextWindow]

ScoreCall(def, t, preference) ==
    [variant |-> "scoreModel", def |-> def, provider |-> "anthropic",
     tier |-> t, preference |-> preference]

\* the two calls: the same descriptor but for the cost
ScoreCallPairs ==
    {[c \in {1, 2} |-> ScoreCall(ScoreDef(cw, r, i, IF c = 1 THEN c1 ELSE c2), t, p)] :
        cw \in ScoreContexts, r \in BOOLEAN,
        i \in {None, Some({"text", "image"})},
        c1 \in ScoreCosts, c2 \in ScoreCosts, t \in TierSet, p \in Preferences}

\* a direct call of scoreModel returns
ScoreModelCall(c) ==
    /\ pc[c] = "start"
    /\ req[c].variant = "scoreModel"
    /\ result' = [result EXCEPT ![c] =
                    Some(scoreModel(req[c].def, req[c].provider, req[c].tier,
                                    req[c].preference))]
    /\ pc' = [pc EXCEPT ![c] = "returned"]
    /\ UNCHANGED <<req, tier, llm, invoked>>

(***************************************************************************)
(* Direct calls of scoreModels on two declared backends, once for the      *)
(* quality preference and once for the cost preference.                    *)
(***************************************************************************)
Backend(provider, def) == [provider |-> provider, def |-> def]

RankBackendPool == {
    Backend("anthropic", SonnetDef), Backend("anthropic", HaikuDef),
    Backend("anthropic", OpusDef), Backend("openai", Gpt4oDef),
    Backend("nanogpt", NanoGpt4oDef), Backend("mistral", MistralDef) }

\* cfg.models.providers declaring a and then b
RankProviders(a, b) ==
    IF a.provider = b.provider
    THEN << [name |-> a.provider, models |-> Some(<<a.def, b.def>>)] >>
    ELSE << [name |-> a.provider, models |-> Some(<<a.def>>)],
            [name |-> b.provider, models |-> Some(<<b.def>>)] >>

RankCall(a, b, t, preference) ==
    [variant |-> "scoreModels", tier |-> t,
     cfg |-> [model |-> None, providers |-> Some(RankProviders(a, b))],
     catalog |-> <<>>, preference |-> preference]

\* the two calls: the same tier and backends, quality against cost
RankCallPairs ==
    UNION {{[c \in {1, 2} |->
                RankCall(a, b, t, IF c = 1 THEN "quality" ELSE "cost")] :
               b \in RankBackendPool \ {a}, t \in TierSet} :
           a \in RankBackendPool}

\* a direct call of scoreModels returns
ScoreModelsCall(c) ==
    /\ pc[c] = "start"
    /\ req[c].variant = "scoreModels"
    /\ result' = [result EXCEPT ![c] =
                    Some(scoreModels(req[c].tier, req[c].cfg, req[c].catalog,
                                     req[c].preference))]
    /\ pc' = [pc EXCEPT ![c] = "returned"]
    /\ UNCHANGED <<req, tier, llm, invoked>>

Init ==
    /\ req \in [{1} -> Requests]
    /\ pc = [c \in {1} |-> "start"]
    /\ tier = [c \in {1} |-> ""]
    /\ llm = [c \in {1} |-> IdleLLM]
    /\ invoked = [c \in {1} |-> 0]
    /\ result = [c \in {1} |-> None]

Next ==
    \/ \E c \in CallIds : ResolveRulesOnly(c)
    \/ \E c \in CallIds : ClassifyTaskRules(c)
    \/ \E c \in CallIds : ClassifyTaskUnresolved(c)
    \/ \E c \in CallIds : InvokeCompleteSimple(c)
    \/ \E c \in CallIds : CompleteSimpleResolves(c)
    \/ \E c \in CallIds : CompleteSimpleRejects(c)
    \/ \E c \in CallIds : TimerFires(c)
    \/ \E c \in CallIds : ClassifyWithLLMReturns(c)
    \/ \E c \in CallIds : ResolveFinish(c)

Spec == Init /\ [][Next]_vars

\* the calls of classifyByRules alone
InitRules ==
    /\ req \in [{1} -> {RuleCall(t) : t \in RuleTasks}]
    /\ pc = [c \in {1} |-> "start"]
    /\ tier = [c \in {1} |-> ""]
    /\ llm = [c \in {1} |-> IdleLLM]
    /\ invoked = [c \in {1} |-> 0]
    /\ result = [c \in {1} |-> None]

NextRules == \E c \in CallIds : ClassifyByRulesCall(c)

SpecRules == InitRules /\ [][NextRules]_vars

\* the calls of scoreModel alone
InitScore ==
    /\ req \in ScoreCallPairs
    /\ pc = [c \in {1, 2} |-> "start"]
    /\ tier = [c \in {1, 2} |-> ""]
    /\ llm = [c \in {1, 2} |-> IdleLLM]
    /\ invoked = [c \in {1, 2} |-> 0]
    /\ result = [c \in {1, 2} |-> None]

NextScore == \E c \in CallIds : ScoreModelCall(c)

SpecScore == InitScore /\ [][NextScore]_vars

\* the calls of scoreModels alone
InitRank ==
    /\ req \in RankCallPairs
    /\ pc = [c \in {1, 2} |-> "start"]
    /\ tier = [c \in {1, 2} |-> ""]
    /\ llm = [c \in {1, 2} |-> IdleLLM]
    /\ invoked = [c \in {1, 2} |-> 0]
    /\ result = [c \in {1, 2} |-> None]

NextRank == \E c \in CallIds : ScoreModelsCall(c)

SpecRank == InitRank /\ [][NextRank]_vars

\* two calls of resolveAutoModel in progress at once
InitPair ==
    /\ req \in [{1, 2} -> PairRequests]
    /\ pc = [c \in {1, 2} |-> "start"]
    /\ tier = [c \in {1, 2} |-> ""]
    /\ llm = [c \in {1, 2} |-> IdleLLM]
    /\ invoked = [c \in {1, 2} |-> 0]
    /\ result = [c \in {1, 2} |-> None]

SpecPair == InitPair /\ [][Next]_vars

\* one call, for every classifier setting
InitFair ==
    /\ req \in [{1} -> ClassifyRequests]
    /\ pc = [c \in {1} |-> "start"]
    /\ tier = [c \in {1} |-> ""]
    /\ llm = [c \in {1} |-> IdleLLM]
    /\ invoked = [c \in {1} |-> 0]
    /\ result = [c \in {1} |-> None]

\* a step of the call's own code: the call is where its code can run on (it
\* has not started, its await of completeSimple has settled, or its task is
\* classified) and it leaves that place
ProgramStep(c) ==
    /\ \/ pc[c] \in {"start", "classified"}
       \/ pc[c] = "awaiting" /\ llm[c].state \in {"resolved", "rejected"}
    /\ \E p \in {"awaiting", "classified", "done", "failed"} :
           p # pc[c] /\ pc' = [pc EXCEPT ![c] = p]

\* completeSimple settles once its signal is aborted
SettlesOnAbort(c) ==
    /\ llm[c].aborted
    /\ (CompleteSimpleResolves(c) \/ CompleteSimpleRejects(c))

\* one call whose code runs on when it can, whose timer fires while the call
\* is pending, and whose completeSimple call honours the abort signal; a call
\* that is not aborted may stay pending for ever
SpecFair ==
    /\ InitFair
    /\ [][Next]_vars
    /\ WF_pc(ProgramStep(1))
    /\ WF_vars(TimerFires(1))
    /\ WF_vars(SettlesOnAbort(1))

(***************************************************************************)
(* Properties                                                              *)
(***************************************************************************)
Returned(c) == pc[c] = "done"

Decision(c) == Get(result[c])

\* C1: resolveAutoModel is total. No call ends in an error, and a call that
\* has returned holds a decision with a tier and a selectedModel whose
\* provider and model id are not empty.
C1_ResolveTotal ==
    \A c \in CallIds :
        /\ pc[c] \in {"start", "awaiting", "classified", "done"}
        /\ Returned(c) =>
               /\ IsSome(result[c])
               /\ Decision(c).tier \in TierSet
               /\ Decision(c).selectedModel.provider # ""
               /\ Decision(c).selectedModel.model # ""

\* a call has returned although its completeSimple call was aborted and
\* rejected
C1_Witness ==
    \E c \in CallIds :
        /\ Returned(c) /\ IsSome(result[c])
        /\ invoked[c] = 1 /\ llm[c].aborted /\ llm[c].state = "rejected"

\* the tier override string of the classified tier (Undef: none)
TierOverrideString(c) ==
    LET model == req[c].cfg.model
    IN  IF IsSome(model) /\ ~Get(model).isString /\ IsSome(Get(model).auto)
           /\ IsSome(Get(Get(model).auto).tiers)
        THEN Get(Get(Get(model).auto).tiers)[tier[c]]
        ELSE Undef

\* the override of the classified tier parses into (provider, model)
OverrideResolves(c) ==
    /\ TierOverrideString(c) \notin {Undef, ""}
    /\ IsSome(parseModelRef(TierOverrideString(c), DEFAULT_PROVIDER))

\* C2: override precedence. When the tier override of the classified tier
\* parses, the decision is exactly that backend, with no score list, whatever
\* the catalog, the declared backends, the preference and autoDiscover are.
C2_OverridePrecedence ==
    \A c \in CallIds :
        Returned(c) /\ OverrideResolves(c) =>
            /\ Decision(c).selectedModel =
                   Get(parseModelRef(TierOverrideString(c), DEFAULT_PROVIDER))
            /\ Decision(c).scores = None
            /\ Decision(c).tier = tier[c]

\* the descriptors that the configuration declares, with their provider
DeclaredDefs(c) ==
    LET providers == req[c].cfg.providers
    IN  IF IsSome(providers)
        THEN UNION {IF IsSome(Get(providers)[i].models)
                    THEN {[provider |-> Get(providers)[i].name,
                           def |-> Get(Get(providers)[i].models)[j]] :
                              j \in 1..Len(Get(Get(providers)[i].models))}
                    ELSE {} : i \in 1..Len(Get(providers))}
        ELSE {}

\* discovery is on, and the catalog is there and not empty
DiscoveryRuns(c) ==
    /\ LET model == req[c].cfg.model
       IN  ~(IsSome(model) /\ ~Get(model).isString /\ IsSome(Get(model).auto)
             /\ Get(Get(model).auto).autoDiscover = Some(FALSE))
    /\ IsSome(req[c].catalog)
    /\ Len(Get(req[c].catalog)) > 0

\* the override applies to a backend that the configuration declares and that
\* fails a hard filter of the tier, while discovery has candidates that pass
C2_Witness ==
    \E c \in CallIds :
        /\ Returned(c) /\ OverrideResolves(c) /\ DiscoveryRuns(c)
        /\ \E d \in DeclaredDefs(c) :
               /\ d.provider = Decision(c).selectedModel.provider
               /\ d.def.id = Decision(c).selectedModel.model
               /\ hardFiltered(d.def, tier[c])
        /\ \E d \in DeclaredDefs(c) : ~hardFiltered(d.def, tier[c])
        /\ Decision(c).scores = None

\* the catalog entries of the call
CatalogEntries(c) ==
    IF IsSome(req[c].catalog)
    THEN {Get(req[c].catalog)[i] : i \in 1..Len(Get(req[c].catalog))}
    ELSE {}

\* the declared descriptors of the backend (provider, id)
DeclaredAs(c, provider, id) ==
    {d \in DeclaredDefs(c) : d.provider = provider /\ d.def.id = id}

\* C3: deduplication. A backend that the configuration declares and the
\* catalog lists under the same (provider, id) is in the score list at most
\* once, and only with the score of its declared descriptor: the catalog entry
\* is never scored or selected, also when the declared descriptor fails a hard
\* filter of the tier.
C3_ScoredOnceAsDeclared ==
    \A c \in CallIds :
        Returned(c) /\ IsSome(Decision(c).scores) =>
            \A e \in CatalogEntries(c) :
                DeclaredAs(c, e.provider, e.id) # {} =>
                    LET scores == Get(Decision(c).scores)
                        hits == {k \in 1..Len(scores) :
                                    /\ scores[k].provider = e.provider
                                    /\ scores[k].model = e.id}
                    IN  /\ Cardinality(hits) <= 1
                        /\ \A k \in hits :
                               \E d \in DeclaredAs(c, e.provider, e.id) :
                                   scoreModel(d.def, d.provider, tier[c],
                                              preferenceOf(req[c]))
                                       = Some(scores[k])

\* the default backends of the tiers
C4_Defaults ==
    [simple |-> [provider |-> "anthropic", model |-> "claude-haiku-3-5"],
     medium |-> [provider |-> "anthropic", model |-> "claude-sonnet-4-20250514"],
     complex |-> [provider |-> "anthropic", model |-> "claude-opus-4-6"],
     reasoning |-> [provider |-> "anthropic", model |-> "claude-opus-4-6"]]

\* every candidate, declared or of the catalog, fails a hard filter of the tier
AllCandidatesExcluded(c) ==
    /\ \A d \in DeclaredDefs(c) : hardFiltered(d.def, tier[c])
    /\ \A e \in CatalogEntries(c) : hardFiltered(syntheticDef(e), tier[c])

\* C4: total fallback. When no tier override resolves and discovery is off,
\* or the catalog is absent or empty, or every candidate fails a hard filter,
\* the decision is the default backend of the classified tier, with no score
\* list.
C4_TotalFallback ==
    \A c \in CallIds :
        Returned(c) /\ ~OverrideResolves(c)
        /\ (~DiscoveryRuns(c) \/ AllCandidatesExcluded(c)) =>
            /\ Decision(c).selectedModel = C4_Defaults[tier[c]]
            /\ Decision(c).scores = None
            /\ Decision(c).tier = tier[c]

\* discovery ran over declared backends and a catalog, every candidate failed
\* a hard filter, the override of the tier did not parse, and the call
\* returned the default
C4_Witness ==
    \E c \in CallIds :
        /\ Returned(c) /\ DiscoveryRuns(c) /\ AllCandidatesExcluded(c)
        /\ DeclaredDefs(c) # {} /\ CatalogEntries(c) # {}
        /\ TierOverrideString(c) \notin {Undef, ""} /\ ~OverrideResolves(c)
        /\ Decision(c).selectedModel = C4_Defaults[tier[c]]

\* the auto object of the configuration (None: no router configuration)
RouterConfig(c) ==
    LET model == req[c].cfg.model
    IN  IF IsSome(model) /\ ~Get(model).isString THEN Get(model).auto ELSE None

\* the classifier is "llm" and a classifier model is set
RemoteConfigured(c) ==
    /\ IsSome(RouterConfig(c))
    /\ Get(RouterConfig(c)).classifier = "llm"
    /\ Get(RouterConfig(c)).classifierModel \notin {Undef, ""}

\* the classifier model is one that the model registry knows
ClassifierResolves(c) ==
    IsSome(resolveClassifierModel(Get(RouterConfig(c)).classifierModel))

\* what classifyByRules returns for the task, an omitted conversationDepth or
\* toolMentions being 0
PatternTierOf ==
    [t \in Tasks |->
        classifyByRules(t[1], IF t[2] = None THEN 0 ELSE Get(t[2]),
                        IF t[3] = None THEN 0 ELSE Get(t[3]))]

PatternTier(c) ==
    PatternTierOf[<<req[c].message, req[c].conversationDepth, req[c].toolMentions>>]

\* the classification is over
Classified(c) == pc[c] \in {"classified", "done"}

\* C5: the remote classification is used when it is configured. With
\* classifier "llm" and a classifier model that resolves, a call that returned
\* has invoked the classifier model once, with classifierTimeout (3000 when
\* not set) as its deadline, and when the classifier yielded a tier, that tier
\* is the tier of the decision and of its model selection.
C5_RemoteTierUsed ==
    \A c \in CallIds :
        Returned(c) /\ RemoteConfigured(c) /\ ClassifierResolves(c) =>
            /\ invoked[c] = 1
            /\ llm[c].timeoutMs =
                   OrElse(Get(RouterConfig(c)).classifierTimeout, 3000)
            /\ IsSome(llm[c].tier) =>
                   /\ Decision(c).tier = Get(llm[c].tier)
                   /\ Decision(c) = selectModel(req[c], Get(llm[c].tier))

\* the text that completeSimple resolved with holds none of the four labels
NoLabel(text) ==
    \A k \in 1..Len(TIER_MAP) : ~includes(toUpperCase(trim(text)), TIER_MAP[k][1])

\* one of the four cases of C6
Degraded(c) ==
    /\ RemoteConfigured(c)
    /\ \/ ~ClassifierResolves(c)
       \/ llm[c].state = "rejected"
       \/ llm[c].aborted
       \/ llm[c].state = "resolved" /\ NoLabel(llm[c].text)

\* C6: graceful degradation. When the classifier model does not resolve, the
\* call fails, the deadline elapses during the call, or the answer holds no
\* label, the classifier yields no tier, no error reaches the caller and the
\* decision is the one of the rules for the same task.
C6_GracefulDegradation ==
    \A c \in CallIds :
        /\ pc[c] # "failed"
        /\ Classified(c) /\ Degraded(c) =>
               /\ llm[c].tier = None
               /\ tier[c] = PatternTier(c)
        /\ Returned(c) /\ Degraded(c) =>
               Decision(c) = selectModel(req[c], PatternTier(c))

\* C7: deadline cancellation. Once the deadline has elapsed during the call,
\* what the call answers afterwards is discarded: the tier is the one of the
\* rules.
C7_LateResponseDiscarded ==
    \A c \in CallIds :
        llm[c].aborted /\ Classified(c) => tier[c] = PatternTier(c)

FeaturesOf ==
    [m \in RuleMessages |->
        LET low == toLowerCase(trimmedText(m))
            rest == fillerRest(m)
        IN  [length |-> Len(low) + rest,
             simple |-> matchesAny(low, rest, SIMPLE_PATTERNS),
             reasoning |-> matchesAny(low, rest, REASONING_PATTERNS),
             complex |-> matchesAny(low, rest, COMPLEX_PATTERNS),
             medium |-> matchesAny(low, rest, MEDIUM_PATTERNS)]]

\* the nine rules, in their order
NineRules(f, depth, tools) == <<
    [when |-> f.length < 20 /\ ~f.reasoning /\ (f.simple \/ f.length < 10),
     tier |-> "simple"],
    [when |-> f.reasoning, tier |-> "reasoning"],
    [when |-> f.complex, tier |-> "complex"],
    [when |-> f.length > 500 /\ tools >= 2, tier |-> "complex"],
    [when |-> f.length > 1000, tier |-> "complex"],
    [when |-> f.medium, tier |-> "medium"],
    [when |-> f.length > 100 \/ depth > 5, tier |-> "medium"],
    [when |-> f.simple, tier |-> "simple"],
    [when |-> TRUE, tier |-> "medium"] >>

\* the first rule that matches
FirstRule(rules) ==
    CHOOSE k \in 1..Len(rules) :
        rules[k].when /\ \A j \in 1..(k - 1) : ~rules[j].when

RulesOf(c) ==
    NineRules(FeaturesOf[req[c].message], req[c].conversationDepth,
              req[c].toolMentions)

\* C9: precedence of the rules. For every trimmed length, conversationDepth,
\* toolMentions and set of matching pattern banks, classifyByRules returns the
\* tier of the first of the nine ordered rules that matches, and it returns
\* one of the four tiers.
C9_FirstMatchingRule ==
    \A c \in CallIds :
        pc[c] = "returned" =>
            /\ tier[c] = RulesOf(c)[FirstRule(RulesOf(c))].tier
            /\ tier[c] \in TierSet

\* a text of more than 500 characters with two tool mentions that matches the
\* medium and the simple bank: rule 4 decides before rules 6, 7 and 8
C9_Witness ==
    \E c \in CallIds :
        /\ pc[c] = "returned"
        /\ FirstRule(RulesOf(c)) = 4
        /\ RulesOf(c)[6].when /\ RulesOf(c)[7].when /\ RulesOf(c)[8].when
        /\ tier[c] = "complex"

\* C10: rules mode. Without a router configuration, with a classifier other
\* than "llm", or without a classifier model, classifyTask returns the tier of
\* classifyByRules (conversationDepth and toolMentions 0 when omitted) and the
\* classifier model is never invoked.
C10_RulesMode ==
    \A c \in CallIds :
        ~RemoteConfigured(c) =>
            /\ invoked[c] = 0
            /\ llm[c].state = "idle"
            /\ Classified(c) => tier[c] = PatternTier(c)

\* the classifier is "rules" although a classifier model is set, the task
\* omits conversationDepth and toolMentions, and classifyTask has returned
C10_Witness ==
    \E c \in CallIds :
        /\ req[c].variant = "withLLM" /\ Classified(c)
        /\ IsSome(RouterConfig(c))
        /\ Get(RouterConfig(c)).classifier = "rules"
        /\ Get(RouterConfig(c)).classifierModel = "openai/gpt-4.1-nano"
        /\ req[c].conversationDepth = None /\ req[c].toolMentions = None
        /\ invoked[c] = 0 /\ tier[c] = PatternTier(c)

\* the minimum context window of each tier
C11_MinContext ==
    [simple |-> 4000, medium |-> 32000, complex |-> 100000, reasoning |-> 100000]

\* what a direct call of scoreModel returned (None: null)
Scored(c) == Get(result[c])

ScoreReturned(c) == pc[c] = "returned" /\ req[c].variant = "scoreModel"

\* C11: hard filters. scoreModel returns null when the context window of the
\* descriptor is below the minimum of the tier (4,000, 32,000, 100,000,
\* 100,000) or the tier is reasoning and the descriptor is not capable of
\* reasoning, and a score in every other case.
C11_HardFilters ==
    \A c \in CallIds :
        ScoreReturned(c) =>
            (Scored(c) = None <=>
                \/ req[c].def.contextWindow < C11_MinContext[req[c].tier]
                \/ req[c].tier = "reasoning" /\ ~req[c].def.reasoning)

\* a descriptor with exactly the minimum context window of the reasoning
\* tier is excluded because it is not capable of reasoning, and for nothing
\* else
C11_Witness ==
    \E c \in CallIds :
        /\ ScoreReturned(c) /\ req[c].tier = "reasoning"
        /\ req[c].def.contextWindow = 100000 /\ ~req[c].def.reasoning
        /\ Scored(c) = None

TotalCost(def) == def.cost.input + def.cost.output

\* C17: cost monotonicity. Of two descriptors that differ only in cost, the
\* one with the smaller or equal total cost has the greater or equal
\* costEfficiency, a total cost of 0 included.
C17_CostMonotone ==
    \A c, d \in CallIds :
        /\ ScoreReturned(c) /\ ScoreReturned(d)
        /\ IsSome(Scored(c)) /\ IsSome(Scored(d))
        /\ [req[c] EXCEPT !.def.cost = req[d].def.cost] = req[d]
        /\ TotalCost(req[c].def) <= TotalCost(req[d].def)
        => Get(Scored(c)).costEfficiency.num * Get(Scored(d)).costEfficiency.den
             >= Get(Scored(d)).costEfficiency.num * Get(Scored(c)).costEfficiency.den

\* a total cost of 0 against a total cost of 1: the efficiency is 1.0 and
\* strictly greater
C17_Witness ==
    \E c, d \in CallIds :
        /\ ScoreReturned(c) /\ ScoreReturned(d)
        /\ IsSome(Scored(c)) /\ IsSome(Scored(d))
        /\ TotalCost(req[c].def) = 0 /\ TotalCost(req[d].def) = 1
        /\ Get(Scored(c)).costEfficiency = [num |-> 20, den |-> 1]
        /\ Get(Scored(c)).costEfficiency.num * Get(Scored(d)).costEfficiency.den
             > Get(Scored(d)).costEfficiency.num * Get(Scored(c)).costEfficiency.den

\* the ranked list that a direct call of scoreModels returned
Ranked(c) == Get(result[c])

RankReturned(c) == pc[c] = "returned" /\ req[c].variant = "scoreModels"

\* the backends that the configuration of call c declares
RankDeclared(c) ==
    LET providers == Get(req[c].cfg.providers)
    IN  UNION {{Backend(providers[n].name, Get(providers[n].models)[k]) :
                    k \in 1..Len(Get(providers[n].models))} :
               n \in 1..Len(providers)}

\* the places of backend b in the ranked list of call c
PlacesOf(c, b) ==
    {k \in 1..Len(Ranked(c)) :
        Ranked(c)[k].provider = b.provider /\ Ranked(c)[k].model = b.def.id}

\* backend a stands before backend b in the ranked list of call c
RankedAbove(c, a, b) == \E i \in PlacesOf(c, a), j \in PlacesOf(c, b) : i < j

ScoreResultOf(c, b) == Ranked(c)[CHOOSE k \in PlacesOf(c, b) : TRUE]

\* calls q and c rank the same backends for the same tier, q under the
\* quality preference and c under the cost preference
QualityAgainstCost(q, c) ==
    /\ RankReturned(q) /\ RankReturned(c)
    /\ req[q].preference = "quality" /\ req[c].preference = "cost"
    /\ [req[q] EXCEPT !.preference = "cost"] = req[c]

\* a is the cheaper and b the better of two backends that pass the filters
CheaperAgainstBetter(q, a, b) ==
    /\ PlacesOf(q, a) # {} /\ PlacesOf(q, b) # {}
    /\ TotalCost(a.def) < TotalCost(b.def)
    /\ ScoreResultOf(q, b).qualityRating > ScoreResultOf(q, a).qualityRating

\* C12 as stated: preference sensitivity. Of two backends that pass the hard
\* filters of the tier, A with the lower total cost and B with the higher
\* qualityRating: when A is ranked above B under the quality preference it is
\* also ranked above B under the cost preference, and when B is ranked above
\* A under the cost preference it is also ranked above A under the quality
\* preference.
C12_PreferenceSensitivity ==
    \A q, c \in CallIds :
        QualityAgainstCost(q, c) =>
            \A a, b \in RankDeclared(q) :
                CheaperAgainstBetter(q, a, b) =>
                    /\ RankedAbove(q, a, b) => RankedAbove(c, a, b)
                    /\ RankedAbove(c, b, a) => RankedAbove(q, b, a)

\* C12 as amended: the same, for a cheaper backend A whose latencyEstimate
\* is not below that of the better backend B.
C12_PreferenceSensitivityAtLatency ==
    \A q, c \in CallIds :
        QualityAgainstCost(q, c) =>
            \A a, b \in RankDeclared(q) :
                /\ CheaperAgainstBetter(q, a, b)
                /\ ScoreResultOf(q, a).latencyEstimate
                     >= ScoreResultOf(q, b).latencyEstimate
                => /\ RankedAbove(q, a, b) => RankedAbove(c, a, b)
                   /\ RankedAbove(c, b, a) => RankedAbove(q, b, a)

\* the preference decides: the better backend is ranked first under quality
\* and the cheaper one, with no lower latencyEstimate, first under cost
C12_Witness ==
    \E q, c \in CallIds :
        /\ QualityAgainstCost(q, c)
        /\ \E a, b \in RankDeclared(q) :
              /\ CheaperAgainstBetter(q, a, b)
              /\ ScoreResultOf(q, a).latencyEstimate
                   >= ScoreResultOf(q, b).latencyEstimate
              /\ RankedAbove(q, b, a) /\ RankedAbove(c, a, b)

\* C19: reasoning precedence. A text that matches a reasoning pattern is
\* classified reasoning by classifyByRules, whatever its trimmed length
\* (below 10 and below 20 included), conversationDepth and toolMentions and
\* whatever other pattern banks it matches.
C19_ReasoningPrecedence ==
    \A c \in CallIds :
        /\ pc[c] = "returned" /\ req[c].variant = "classifyByRules"
        /\ FeaturesOf[req[c].message].reasoning
        => tier[c] = "reasoning"

\* a text of fewer than 10 characters that matches the simple and the
\* reasoning bank is classified reasoning
C19_Witness ==
    \E c \in CallIds :
        /\ pc[c] = "returned" /\ req[c].variant = "classifyByRules"
        /\ FeaturesOf[req[c].message].reasoning
        /\ FeaturesOf[req[c].message].simple
        /\ FeaturesOf[req[c].message].length < 10
        /\ tier[c] = "reasoning"

\* the labels in the order in which they are tried, and their tiers
C20_Labels == <<"SIMPLE", "MEDIUM", "COMPLEX", "REASONING">>

C20_TierOfLabel ==
    [SIMPLE |-> "simple", MEDIUM |-> "medium", COMPLEX |-> "complex",
     REASONING |-> "reasoning"]

\* label occurs somewhere in the upper-cased text
OccursUpperCased(text, label) ==
    \E i \in 1..(Len(text) - Len(label) + 1) :
        toUpperCase(SubSeq(text, i, i + Len(label) - 1)) = label

\* the tier of the first label, in the order of C20_Labels, that occurs
LabelTier(text) ==
    LET found == {n \in 1..Len(C20_Labels) : OccursUpperCased(text, C20_Labels[n])}
    IN  IF found = {} THEN None
        ELSE Some(C20_TierOfLabel[C20_Labels[CHOOSE n \in found :
                                                \A m \in found : n <= m]])

\* C20: remote label resolution. The tier that classifyWithLLM returns for a
\* response is that of the first of SIMPLE, MEDIUM, COMPLEX, REASONING, in
\* this order, that occurs in the upper-cased response, wherever the labels
\* stand in it, and null exactly when none of them occurs.
C20_LabelResolution ==
    \A c \in CallIds :
        Classified(c) /\ llm[c].state = "resolved" =>
            /\ llm[c].tier = LabelTier(llm[c].text)
            /\ llm[c].tier = None <=>
                   \A n \in 1..Len(C20_Labels) :
                       ~OccursUpperCased(llm[c].text, C20_Labels[n])

\* MEDIUM stands before SIMPLE in the response and the tier is simple
C20_Witness ==
    \E c \in CallIds :
        /\ Classified(c) /\ llm[c].state = "resolved"
        /\ llm[c].text = "MEDIUM, not SIMPLE"
        /\ llm[c].tier = Some("simple")

\* the candidates that pass the hard filters, scored, in the order in which
\* scoreModels enumerates them
Enumerated(c) ==
    LET preference == preferenceOf(req[c])
        declared == scoreProviders(OrElse(req[c].cfg.providers, <<>>), 1,
                                   Decision(c).tier, preference)
    IN  scoreCatalog(Get(req[c].catalog), 1, declared, Decision(c).tier, preference)

\* where a score of the decision stands in the enumeration
EnumeratedAt(c, s) ==
    CHOOSE k \in 1..Len(Enumerated(c)) : Enumerated(c)[k] = s

ThroughDiscovery(c) == Returned(c) /\ IsSome(Decision(c).scores)

TopScores(c) == Get(Decision(c).scores)

\* C13: ranking order. The scores of a decision made by discovery are scored
\* candidates in descending order of score; candidates of equal score stand
\* in the order of their enumeration (declared backends in the order of the
\* provider map and of their declaration, then catalog entries in catalog
\* order), and the selected backend is the first of them.
C13_RankingOrder ==
    \A c \in CallIds :
        ThroughDiscovery(c) =>
            /\ \A k \in 1..Len(TopScores(c)) :
                   \E n \in 1..Len(Enumerated(c)) : Enumerated(c)[n] = TopScores(c)[k]
            /\ \A i, j \in 1..Len(TopScores(c)) :
                   i < j =>
                       /\ ~ScoreLess(TopScores(c)[i], TopScores(c)[j])
                       /\ ScoreEq(TopScores(c)[i], TopScores(c)[j]) =>
                              EnumeratedAt(c, TopScores(c)[i])
                                  < EnumeratedAt(c, TopScores(c)[j])
            /\ \A n \in 1..Len(Enumerated(c)) :
                   ScoreEq(Enumerated(c)[n], TopScores(c)[1]) =>
                       EnumeratedAt(c, TopScores(c)[1]) <= n
            /\ Decision(c).selectedModel =
                   [provider |-> TopScores(c)[1].provider,
                    model |-> TopScores(c)[1].model]

\* a declared backend and two catalog entries have the top score, and the
\* declared one is selected, before the catalog entries in catalog order
C13_Witness ==
    \E c \in CallIds :
        /\ ThroughDiscovery(c)
        /\ Len(TopScores(c)) >= 3
        /\ ScoreEq(TopScores(c)[1], TopScores(c)[2])
        /\ ScoreEq(TopScores(c)[2], TopScores(c)[3])
        /\ Decision(c).selectedModel = [provider |-> "openai", model |-> "gpt-4o"]
        /\ TopScores(c)[2].provider = "github"
        /\ TopScores(c)[3].provider = "azure"

\* C14: score list shape. The scores of a decision made by discovery are the
\* first min(5, number of candidates that pass the filters) of the ranked
\* list and not empty, the selected backend is the (provider, id) of the
\* first of them, and no scored candidate has a strictly higher score.
C14_ScoreListShape ==
    \A c \in CallIds :
        ThroughDiscovery(c) =>
            /\ Len(TopScores(c)) = Min(5, Len(Enumerated(c)))
            /\ Len(TopScores(c)) > 0
            /\ Decision(c).selectedModel =
                   [provider |-> TopScores(c)[1].provider,
                    model |-> TopScores(c)[1].model]
            /\ \A n \in 1..Len(Enumerated(c)) :
                   /\ ~ScoreLess(TopScores(c)[1], Enumerated(c)[n])
                   /\ (\A k \in 1..Len(TopScores(c)) :
                          TopScores(c)[k] # Enumerated(c)[n])
                      => \A k \in 1..Len(TopScores(c)) :
                             ~ScoreLess(TopScores(c)[k], Enumerated(c)[n])

\* more than five candidates pass the filters and the decision holds five
\* scores
C14_Witness ==
    \E c \in CallIds :
        /\ ThroughDiscovery(c)
        /\ Len(Enumerated(c)) > 5
        /\ Len(TopScores(c)) = 5

\* what the completeSimple call of call c came to: not invoked, rejected, or
\* resolved with a text
RemoteOutcome(c) ==
    IF invoked[c] = 0 THEN <<"none", "">> ELSE <<llm[c].state, llm[c].text>>

OwnTier(c) ==
    IF req[c].variant = "withLLM" /\ invoked[c] = 1 /\ llm[c].state = "resolved"
       /\ IsSome(LabelTier(llm[c].text))
    THEN Get(LabelTier(llm[c].text))
    ELSE PatternTier(c)

\* the decision of every call that has returned is the one of its own
\* parameters and remote outcome
OwnDecision ==
    \A c \in CallIds :
        /\ Classified(c) => tier[c] = OwnTier(c)
        /\ Returned(c) => result[c] = Some(selectModel(req[c], OwnTier(c)))

\* a step belongs to one call: it leaves the parameters of every call and
\* the tier, the timer and signal, the invocation count and the result of
\* every other call as they are
OwnStep ==
    /\ req' = req
    /\ \E c \in CallIds :
           \A d \in CallIds \ {c} :
               /\ pc'[d] = pc[d] /\ tier'[d] = tier[d] /\ llm'[d] = llm[d]
               /\ invoked'[d] = invoked[d] /\ result'[d] = result[d]

\* C16: request independence. In every interleaving of two calls, the calls
\* suspended at completeSimple included, the decision of each call is the one
\* that its own parameters and its own remote outcome give, and no step of a
\* call changes the tier, timer, scores or result of the other call.
C16_RequestIndependence == [](OwnDecision) /\ [][OwnStep]_vars

\* two calls for the same parameters were suspended at completeSimple
\* together, got different answers and returned different decisions, each its
\* own
C16_Witness ==
    \E c, d \in CallIds :
        /\ c # d /\ req[c] = req[d]
        /\ Returned(c) /\ Returned(d)
        /\ llm[c].aborted /\ llm[c].state = "rejected"
        /\ llm[d].state = "resolved" /\ llm[d].text = "reasoning"
        /\ Decision(c).tier = PatternTier(c)
        /\ Decision(d).tier = "reasoning"
        /\ Decision(c).tier # Decision(d).tier

\* C18: termination. Every call eventually returns a decision, and once the
\* deadline of the remote classification has fired, the classification falls
\* back to the rules and the call returns the decision for the rules' tier.
C18_Termination ==
    /\ <>Returned(1)
    /\ (llm[1].timer = "fired")
           ~> (Returned(1) /\ Decision(1).tier = PatternTier(1))

\* the configuration of call c holds a map of tier overrides
HasTiers(c) == IsSome(RouterConfig(c)) /\ IsSome(Get(RouterConfig(c)).tiers)

TiersOfCall(c) == Get(Get(RouterConfig(c)).tiers)

\* the parameters of call c with tm as the map of tier overrides
WithTiers(c, tm) ==
    [req[c] EXCEPT !.cfg.model =
        Some([Get(@) EXCEPT !.auto = Some([Get(@) EXCEPT !.tiers = Some(tm)])])]

\* C21: an override that does not parse is skipped. When the override of the
\* classified tier is set and does not parse, the decision is the one without
\* that override: the result of discovery when discovery runs and a candidate
\* passes the filters, the default backend of the tier otherwise. The
\* overrides of the other tiers never change the decision.
C21_UnparseableSkipped ==
    \A c \in CallIds :
        Returned(c) /\ HasTiers(c) =>
            /\ (TierOverrideString(c) # Undef /\ ~OverrideResolves(c)) =>
                   /\ result[c] =
                          Some(selectModel(
                                   WithTiers(c, [TiersOfCall(c) EXCEPT
                                                     ![tier[c]] = Undef]),
                                   tier[c]))
                   /\ IF DiscoveryRuns(c) /\ ~AllCandidatesExcluded(c)
                      THEN /\ IsSome(Decision(c).scores)
                           /\ Decision(c).selectedModel =
                                  [provider |-> TopScores(c)[1].provider,
                                   model |-> TopScores(c)[1].model]
                      ELSE /\ Decision(c).scores = None
                           /\ Decision(c).selectedModel = C4_Defaults[tier[c]]
            /\ result[c] =
                   Some(selectModel(
                            WithTiers(c, [NoTiers EXCEPT
                                              ![tier[c]] = TierOverrideString(c)]),
                            tier[c]))

\* the override of the classified tier, "/x", does not parse, the override of
\* another tier does, and the call returned the result of discovery
C21_Witness ==
    \E c \in CallIds :
        /\ Returned(c) /\ HasTiers(c)
        /\ TierOverrideString(c) = "/x"
        /\ IsSome(parseModelRef(TiersOfCall(c).medium, DEFAULT_PROVIDER))
        /\ tier[c] # "medium"
        /\ IsSome(Decision(c).scores)

\* C22: bounds of the component scores. In every score that scoreModels
\* returns, capabilityMatch, costEfficiency, qualityRating and
\* latencyEstimate are each at least 0 and at most 1 (20 twentieths).
C22_ComponentBounds ==
    \A c \in CallIds :
        RankReturned(c) =>
            \A k \in 1..Len(Ranked(c)) :
                LET s == Ranked(c)[k]
                IN  /\ 0 <= s.capabilityMatch /\ s.capabilityMatch <= 20
                    /\ 0 <= s.qualityRating /\ s.qualityRating <= 20
                    /\ 0 <= s.latencyEstimate /\ s.latencyEstimate <= 20
                    /\ s.costEfficiency.den > 0
                    /\ 0 <= s.costEfficiency.num
                    /\ s.costEfficiency.num <= 20 * s.costEfficiency.den

\* the context, reasoning and image bonuses all apply to a declared backend,
\* and its capabilityMatch is 1
C22_Witness ==
    \E c \in CallIds :
        /\ RankReturned(c) /\ req[c].tier = "reasoning"
        /\ \E b \in RankDeclared(c) :
              /\ b.def.contextWindow >= 100000 /\ b.def.reasoning
              /\ IsSome(b.def.input) /\ "image" \in Get(b.def.input)
              /\ PlacesOf(c, b) # {}
              /\ ScoreResultOf(c, b).capabilityMatch = 20

\* the descriptors that discovery may score for call c, with their provider:
\* the declared ones and the synthetic ones of the catalog entries
CandidateDefs(c) ==
    DeclaredDefs(c)
        \cup {[provider |-> e.provider, def |-> syntheticDef(e)] :
                 e \in CatalogEntries(c)}

\* the candidate descriptors whose score is s
ScoredAs(c, s) ==
    {d \in CandidateDefs(c) :
        /\ d.provider = s.provider /\ d.def.id = s.model
        /\ scoreModel(d.def, d.provider, Decision(c).tier, preferenceOf(req[c]))
               = Some(s)}

\* C23: the selected backend meets the requirements of the tier. In a
\* decision made by discovery, every score of the list, the first (the
\* selected backend) included, is the score of a candidate descriptor whose
\* context window is at least the minimum of the classified tier and which is
\* capable of reasoning when the tier is reasoning; a catalog entry without a
\* reasoning flag is not what was scored for a score of the reasoning tier.
C23_SelectedMeetsTier ==
    \A c \in CallIds :
        ThroughDiscovery(c) =>
            /\ Decision(c).tier = tier[c]
            /\ \A k \in 1..Len(TopScores(c)) :
                   /\ ScoredAs(c, TopScores(c)[k]) # {}
                   /\ \A d \in ScoredAs(c, TopScores(c)[k]) :
                          /\ d.def.contextWindow >= C11_MinContext[tier[c]]
                          /\ tier[c] = "reasoning" => d.def.reasoning
                   /\ tier[c] = "reasoning" =>
                          \/ \E d \in DeclaredDefs(c) :
                                 /\ d.provider = TopScores(c)[k].provider
                                 /\ d.def.id = TopScores(c)[k].model
                                 /\ d.def.reasoning
                          \/ \E e \in CatalogEntries(c) :
                                 /\ e.provider = TopScores(c)[k].provider
                                 /\ e.id = TopScores(c)[k].model
                                 /\ e.reasoning = Some(TRUE)

\* for the reasoning tier the catalog lists an entry without a reasoning flag
\* and one with it, and discovery selected the one with the flag and left the
\* other out
C23_Witness ==
    \E c \in CallIds :
        /\ ThroughDiscovery(c) /\ tier[c] = "reasoning"
        /\ \E e \in CatalogEntries(c) :
              /\ e.reasoning = None
              /\ \A k \in 1..Len(TopScores(c)) :
                     ~(TopScores(c)[k].provider = e.provider
                       /\ TopScores(c)[k].model = e.id)
        /\ \E e \in CatalogEntries(c) :
              /\ e.reasoning = Some(TRUE)
              /\ Decision(c).selectedModel = [provider |-> e.provider, model |-> e.id]

\* C24: bound on the simple tier. classifyByRules returns simple only for a
\* text that matches no reasoning pattern and whose trimmed length is at most
\* 100; for a trimmed length of 20 or more it returns simple only if the text
\* also matches a simple pattern, no complex and no medium pattern, and
\* conversationDepth is at most 5.
C24_SimpleBound ==
    \A c \in CallIds :
        /\ pc[c] = "returned" /\ req[c].variant = "classifyByRules"
        /\ tier[c] = "simple"
        => LET f == FeaturesOf[req[c].message]
           IN  /\ ~f.reasoning
               /\ f.length <= 100
               /\ f.length >= 20 =>
                      /\ f.simple /\ ~f.complex /\ ~f.medium
                      /\ req[c].conversationDepth <= 5

\* a text of exactly 100 characters in a conversation of depth 5 is
\* classified simple
C24_Witness ==
    \E c \in CallIds :
        /\ pc[c] = "returned" /\ req[c].variant = "classifyByRules"
        /\ tier[c] = "simple"
        /\ FeaturesOf[req[c].message].length = 100
        /\ req[c].conversationDepth = 5

====
